---- MODULE Spec2Model ----
(***************************************************************************)
(* Weather.io: the versioned override store of server.js (a JSON file      *)
(* rewritten whole on every mutation, behind a small HTTP surface) and the *)
(* browser client that caches forecasts and invalidates its cache after a  *)
(* mutation.                                                               *)
(*                                                                         *)
(*   Spec        the HTTP server from an empty log, requests in flight     *)
(*   SpecStore   the store operations from any content of overrides.json   *)
(*   SpecClient  the client's loads and mutation handlers against the      *)
(*               server                                                    *)
(*   SpecCache   the client's loads, one at a time, while time passes      *)
(*   SpecLoad    the client's loads, one at a time, while other sessions   *)
(*               change the log                                            *)
(*   SpecRace    the client's loads in flight together                     *)
(***************************************************************************)
EXTENDS Integers, Sequences, FiniteSets, TLC

VARIABLES
    file,       \* content of data/overrides.json
    running,    \* the server process is alive
    reqs,       \* POST/DELETE requests whose body is still arriving
    arrived,    \* requests received so far
    hist,       \* per key: versions returned by Create, 0 for a handled Delete
    last,       \* the request handled last: its inputs, the file before, the response
    locationData,   \* client: {lat, lon}, each float written as its String()
    currentDateKey, \* client: today | tomorrow | dayafter
    currentWeather, \* client: <<>> is null, <<key>> the snapshot fetched for key
    currentOverride,\* client: <<>> is null, <<r>> the override record last read
    removeHidden,   \* client: remove-btn carries the class hidden
    weatherCache,   \* client: localStorage weatherCache, the keys it holds
    muts,           \* client: POST/DELETE /override awaiting their response
    loads,          \* client: loadWeather calls awaiting a response
    sent,           \* client: mutation requests issued so far
    inval,          \* client: the cache removal done last, and for which request
    now,            \* client: Date.now()
    card,           \* client: the weather card and the status line
    ended           \* client: how the load that ended last ended

vars == <<file, running, reqs, arrived, hist, last,
          locationData, currentDateKey, currentWeather, currentOverride,
          removeHidden, weatherCache, muts, loads, sent, inval,
          now, card, ended>>

clientVars == <<locationData, currentDateKey, currentWeather, currentOverride,
                removeHidden, weatherCache, muts, loads, sent, inval,
                now, card, ended>>

----------------------------------------------------------------------------
(* Bounds and value sets *)

MaxOps == 3         \* requests the server receives in one run of Spec
MaxStoreOps == 2    \* operations applied to an arbitrary file in SpecStore
MaxInitLen == 2     \* records of an arbitrary initial log
MaxSent == 1        \* mutation requests the client issues in one run
MaxLoads == 2       \* loads in flight beyond which the user starts no other
MaxTime == 3        \* the clock stops here

Lats == {"17.385", "17.3850"}
Lons == {"78.4867"}
Dates == {"2024-01-01"}
Keys == Lats \X Lons \X Dates

\* newValues: a partial snapshot, a function from the fields given to values
NoValues == [f \in {} |-> 0]
TempOnly == [f \in {"tempC"} |-> 28]
Values == {NoValues, TempOnly}

\* what the client can send: String() of the floats it holds, and its dates
ClientLats == {"17.385", "12.5"}
ClientDates == {"2024-01-01", "2024-01-02"}
ClientKeys == ClientLats \X Lons \X ClientDates
AllKeys == Keys \cup ClientKeys

ReqIds == {"r1", "r2"}
InitVersions == {1, 2}

Max(a, b) == IF a > b THEN a ELSE b

----------------------------------------------------------------------------
(* The override store: server.js 35-98 *)

ArrayFile(list) == [kind |-> "array", recs |-> list]
BadKinds == {"absent", "empty", "garbage", "object"}
BadFile(kind) == [kind |-> kind, recs |-> <<>>]

\* readFileSync throws on an absent file and JSON.parse on empty or unparseable
\* text: the catch returns []. Parseable text is returned as parsed, whatever it
\* is: kind "object" is a file holding {} and comes back as a non-array.
readOverrides(f) ==
    CASE f.kind = "array" -> [isArray |-> TRUE, list |-> f.recs]
      [] f.kind = "object" -> [isArray |-> FALSE, list |-> <<>>]
      [] OTHER -> [isArray |-> TRUE, list |-> <<>>]

writeOverridesActiveOnly(list) == ArrayFile(SelectSeq(list, LAMBDA o : o.active))
writeOverrides(list) == ArrayFile(list)

SameKeyAsNumbers(o, lat, lon, date) ==
    LET num(t) == IF t = "17.3850" THEN "17.385" ELSE t
    IN  num(o.lat) = num(lat) /\ num(o.lon) = num(lon) /\ o.date = date

\* o.lat === lat && o.lon === lon && o.date === date
SameKey(o, lat, lon, date) == o.lat = lat /\ o.lon = lon /\ o.date = date

reduceFirst(c, a, i) == a
\* candidates.reduce((a, b) => (a.version > b.version ? a : b))
RECURSIVE reduceLatest(_, _, _)
reduceLatest(c, a, i) ==
    IF i > Len(c) THEN a
    ELSE reduceLatest(c, IF a.version > c[i].version THEN a ELSE c[i], i + 1)

\* Result of a store function: threw (a TypeError escaped it), val (<<>> is
\* null, <<r>> the record returned) and the file it leaves behind.
Threw(f) == [threw |-> TRUE, val |-> <<>>, file |-> f]
Returned(v, f) == [threw |-> FALSE, val |-> v, file |-> f]

getLatestFilterAny(o, lat, lon, date) == SameKey(o, lat, lon, date)
getLatestFilter(o, lat, lon, date) == o.active /\ SameKey(o, lat, lon, date)

getLatestOverride(f, lat, lon, date) ==
    LET all == readOverrides(f)
        candidates == SelectSeq(all.list, LAMBDA o : getLatestFilter(o, lat, lon, date))
    IN  IF ~all.isArray THEN Threw(f)   \* all.filter is not a function
        ELSE IF Len(candidates) = 0 THEN Returned(<<>>, f)
        ELSE Returned(<<reduceLatest(candidates, candidates[1], 2)>>, f)

\* the for loop of addOverride: maxVersion over the key's records
RECURSIVE maxVersionLoop(_, _, _, _, _, _)
maxVersionLoop(all, i, lat, lon, date, maxVersion) ==
    IF i > Len(all) THEN maxVersion
    ELSE maxVersionLoop(all, i + 1, lat, lon, date,
            IF SameKey(all[i], lat, lon, date)
            THEN Max(maxVersion, all[i].version) ELSE maxVersion)

addDeactivateKeepLast(all, lat, lon, date) ==
    [i \in DOMAIN all |->
        IF SameKey(all[i], lat, lon, date) /\ i < Len(all)
        THEN [all[i] EXCEPT !.active = FALSE] ELSE all[i]]
\* the for loop of addOverride: o.active = false on the key's records
addDeactivate(all, lat, lon, date) ==
    [i \in DOMAIN all |->
        IF SameKey(all[i], lat, lon, date)
        THEN [all[i] EXCEPT !.active = FALSE] ELSE all[i]]

newVersionOfLen(all, lat, lon, date) == Len(all) + 1
newVersionOfCount(all, lat, lon, date) ==
    Len(SelectSeq(all, LAMBDA o : o.active /\ SameKey(o, lat, lon, date))) + 1
newVersionOfActive(all, lat, lon, date) ==
    maxVersionLoop(SelectSeq(all, LAMBDA o : o.active), 1, lat, lon, date, 0) + 1
newVersion(all, lat, lon, date) == maxVersionLoop(all, 1, lat, lon, date, 0) + 1

addOverride(f, lat, lon, date, values) ==
    LET all == readOverrides(f)
        newOverride == [lat |-> lat, lon |-> lon, date |-> date,
                        newValues |-> values, updatedBy |-> "anonymous",
                        version |-> newVersion(all.list, lat, lon, date),
                        active |-> TRUE]
        pushed == Append(addDeactivate(all.list, lat, lon, date), newOverride)
    IN  IF ~all.isArray THEN Threw(f)   \* all is not iterable
        ELSE Returned(<<newOverride>>, writeOverrides(pushed))

removeMatchAny(o, lat, lon, date) == SameKey(o, lat, lon, date)
removeMatch(o, lat, lon, date) == o.active /\ SameKey(o, lat, lon, date)

removeDeactivate(all, lat, lon, date) ==
    [i \in DOMAIN all |->
        IF removeMatch(all[i], lat, lon, date)
        THEN [all[i] EXCEPT !.active = FALSE] ELSE all[i]]

\* removed is the last record the loop deactivated, as it is after the loop;
\* the file is written only when there is one
removeOverride(f, lat, lon, date) ==
    LET all == readOverrides(f)
        hits == {i \in DOMAIN all.list : removeMatch(all.list[i], lat, lon, date)}
        after == removeDeactivate(all.list, lat, lon, date)
        lastHit == CHOOSE i \in hits : \A j \in hits : j <= i
    IN  IF ~all.isArray THEN Threw(f)   \* all is not iterable
        ELSE IF hits = {} THEN Returned(<<>>, f)
        ELSE Returned(<<after[lastHit]>>, writeOverrides(after))

----------------------------------------------------------------------------
(* The HTTP surface: server.js 119-206 *)

\* A request body as the JSON text the client wrote: one token per property,
\* "junk" for text JSON.parse rejects. s is a string value, o an object value.
Tok(f, s, o) == [f |-> f, s |-> s, o |-> o, def |-> TRUE]
Undefined == [f |-> "", s |-> "", o |-> NoValues, def |-> FALSE]
Junk == Tok("junk", "", NoValues)

PostBody(k, v) ==
    <<Tok("lat", k[1], NoValues), Tok("lon", k[2], NoValues),
      Tok("date", k[3], NoValues), Tok("values", "", v)>>
DeleteBody(k) ==
    <<Tok("lat", k[1], NoValues), Tok("lon", k[2], NoValues),
      Tok("date", k[3], NoValues)>>

AKey == CHOOSE k \in Keys : TRUE
\* bodies that arrive: well-formed ones, unparseable text, a property missing
PostBodies ==
    {PostBody(k, v) : k \in Keys, v \in Values}
        \cup {<<Junk>>, DeleteBody(AKey)}
DeleteBodies ==
    {DeleteBody(k) : k \in Keys}
        \cup {<<Junk>>, Tail(DeleteBody(AKey))}

\* the body reaches the server in order, in at most two chunks
Chunks(b) ==
    IF Len(b) <= 1 THEN IF b = <<>> THEN <<>> ELSE <<b>>
    ELSE <<SubSeq(b, 1, Len(b) \div 2), SubSeq(b, Len(b) \div 2 + 1, Len(b))>>

\* JSON.parse(body || '{}'): throws on text that is not JSON; an empty body
\* parses as {}. The object is read through Prop (a later property wins).
JSONparse(body) ==
    [threw |-> \E i \in DOMAIN body : body[i].f = "junk", props |-> body]

Prop(data, name) ==
    LET at == {i \in DOMAIN data.props : data.props[i].f = name}
    IN  IF at = {} THEN Undefined
        ELSE data.props[CHOOSE i \in at : \A j \in at : j <= i]

FalsyEmptyString(t) == t.def /\ t.f # "values" /\ t.s = ""

\* !x for a string-valued property: undefined and "" are falsy
Falsy(t) == ~t.def \/ (t.f # "values" /\ t.s = "")

Resp(status, rec, removed, error) ==
    [status |-> status, rec |-> rec, removed |-> removed, error |-> error]
\* no response was written: the handler's promise rejected
NoResp == Resp(0, <<>>, FALSE, "")

\* GET /override (server.js 148-157). A TypeError of getLatestOverride leaves
\* the async listener as a rejected promise nobody handles.
getHandler(f, lat, lon, date) ==
    IF lat = "" \/ lon = "" \/ date = ""
    THEN [file |-> f, unhandled |-> FALSE,
          resp |-> Resp(400, <<>>, FALSE, "Missing lat, lon or date parameter")]
    ELSE LET r == getLatestOverride(f, lat, lon, date)
         IN  IF r.threw THEN [file |-> f, unhandled |-> TRUE, resp |-> NoResp]
             ELSE [file |-> f, unhandled |-> FALSE,
                   resp |-> Resp(200, r.val, FALSE, "")]

postStatus == 201

\* POST /override, the 'end' listener (server.js 162-178)
postHandler(f, body) ==
    LET data == JSONparse(body)
        lat == Prop(data, "lat")
        lon == Prop(data, "lon")
        date == Prop(data, "date")
        values == Prop(data, "values")
        r == addOverride(f, lat.s, lon.s, date.s, values.o)
    IN  IF data.threw
        THEN [file |-> f, resp |-> Resp(400, <<>>, FALSE, "Invalid JSON body")]
        ELSE IF Falsy(lat) \/ Falsy(lon) \/ Falsy(date) \/ Falsy(values)
        THEN [file |-> f,
              resp |-> Resp(400, <<>>, FALSE, "lat, lon, date and values are required")]
        ELSE IF r.threw
        THEN [file |-> f, resp |-> Resp(400, <<>>, FALSE, "Invalid JSON body")]
        ELSE [file |-> r.file, resp |-> Resp(postStatus, r.val, FALSE, "")]

\* DELETE /override, the 'end' listener (server.js 183-199)
deleteHandler(f, body) ==
    LET data == JSONparse(body)
        lat == Prop(data, "lat")
        lon == Prop(data, "lon")
        date == Prop(data, "date")
        r == removeOverride(f, lat.s, lon.s, date.s)
    IN  IF data.threw
        THEN [file |-> f, resp |-> Resp(400, <<>>, FALSE, "Invalid JSON body")]
        ELSE IF Falsy(lat) \/ Falsy(lon) \/ Falsy(date)
        THEN [file |-> f,
              resp |-> Resp(400, <<>>, FALSE, "lat, lon and date are required")]
        ELSE IF r.threw
        THEN [file |-> f, resp |-> Resp(400, <<>>, FALSE, "Invalid JSON body")]
        ELSE [file |-> r.file, resp |-> Resp(200, <<>>, r.val # <<>>, "")]

----------------------------------------------------------------------------
(* Bookkeeping of what the server answered *)

Handled(method, body, pre, resp, overtaken) ==
    LET data == JSONparse(body)
    IN  [method |-> method, overtaken |-> overtaken, body |-> body,
         lat |-> Prop(data, "lat").s, lon |-> Prop(data, "lon").s,
         date |-> Prop(data, "date").s, values |-> Prop(data, "values").o,
         pre |-> pre, resp |-> resp]

NothingHandled(f) ==
    [method |-> "NONE", overtaken |-> FALSE, body |-> <<>>,
     lat |-> "", lon |-> "", date |-> "", values |-> NoValues,
     pre |-> f, resp |-> NoResp]

LastKey == <<last.lat, last.lon, last.date>>

\* a Create appends the version it returned, a handled Delete appends 0
Recorded(h, l) ==
    IF l.method = "POST" /\ l.resp.status = postStatus
    THEN [h EXCEPT ![<<l.lat, l.lon, l.date>>] = Append(@, l.resp.rec[1].version)]
    ELSE IF l.method = "DELETE" /\ l.resp.status = 200
    THEN [h EXCEPT ![<<l.lat, l.lon, l.date>>] = Append(@, 0)]
    ELSE h

\* logLen: the records the log held when the request arrived
FreeReq == [st |-> "free", method |-> "", chunks |-> <<>>, body |-> <<>>, logLen |-> 0]

NoInval == [done |-> FALSE, sent |-> <<>>, removed |-> <<>>, stillCached |-> FALSE]

\* no client is connected
ClientIdle ==
    /\ locationData = [lat |-> "17.385", lon |-> "78.4867"]
    /\ currentDateKey = "today"
    /\ currentWeather = <<>>
    /\ currentOverride = <<>>
    /\ removeHidden = TRUE
    /\ weatherCache = [k \in {} |-> 0]
    /\ muts = {}
    /\ loads = <<>>
    /\ sent = 0
    /\ inval = NoInval
    /\ now = 0
    /\ card = [hidden |-> TRUE, status |-> "", error |-> FALSE,
               data |-> NoValues, source |-> <<>>, key |-> <<>>]
    /\ ended = "none"

----------------------------------------------------------------------------
(* Spec: the server from an empty log, request bodies arriving in chunks *)

Init ==
    /\ file \in {BadFile("absent"), ArrayFile(<<>>)}
    /\ running = TRUE
    /\ reqs = [r \in ReqIds |-> FreeReq]
    /\ arrived = 0
    /\ hist = [k \in AllKeys |-> <<>>]
    /\ last = NothingHandled(file)
    /\ ClientIdle

\* GET is answered within the request listener
GetRequest(lat, lon, date) ==
    LET out == getHandler(file, lat, lon, date)
    IN  /\ running /\ arrived < MaxOps
        /\ arrived' = arrived + 1
        /\ last' = [NothingHandled(file) EXCEPT !.method = "GET", !.lat = lat,
                        !.lon = lon, !.date = date, !.resp = out.resp]
        /\ running' \in (IF out.unhandled THEN BOOLEAN ELSE {TRUE})
        /\ UNCHANGED <<file, reqs, hist>>
        /\ UNCHANGED clientVars

\* POST and DELETE: the listener registers 'data' and 'end' and returns
Arrive(r, method, body) ==
    /\ running /\ arrived < MaxOps
    /\ reqs[r].st = "free"
    /\ arrived' = arrived + 1
    /\ reqs' = [reqs EXCEPT ![r] = [st |-> "open", method |-> method,
                                    chunks |-> Chunks(body), body |-> <<>>,
                                    logLen |-> Len(readOverrides(file).list)]]
    /\ UNCHANGED <<file, running, hist, last>>
    /\ UNCHANGED clientVars

PostArrive(r) == \E b \in PostBodies : Arrive(r, "POST", b)
DeleteArrive(r) == \E b \in DeleteBodies : Arrive(r, "DELETE", b)

\* req.on('data'): body += chunk
Data(r) ==
    /\ running
    /\ reqs[r].st = "open" /\ reqs[r].chunks # <<>>
    /\ reqs' = [reqs EXCEPT ![r].body = @ \o Head(reqs[r].chunks),
                            ![r].chunks = Tail(@)]
    /\ UNCHANGED <<file, running, arrived, hist, last>>
    /\ UNCHANGED clientVars

End(r, method, out) ==
    /\ running
    /\ reqs[r].st = "open" /\ reqs[r].chunks = <<>> /\ reqs[r].method = method
    /\ file' = out.file
    /\ last' = Handled(method, reqs[r].body, file, out.resp,
                        reqs[r].logLen < Len(readOverrides(file).list))
    /\ hist' = Recorded(hist, last')
    /\ reqs' = [reqs EXCEPT ![r] = FreeReq]
    /\ UNCHANGED <<running, arrived>>
    /\ UNCHANGED clientVars

PostEnd(r) == End(r, "POST", postHandler(file, reqs[r].body))
DeleteEnd(r) == End(r, "DELETE", deleteHandler(file, reqs[r].body))

Next ==
    \/ \E k \in Keys : GetRequest(k[1], k[2], k[3])
    \/ GetRequest("", "78.4867", "2024-01-01")
    \/ \E r \in ReqIds : PostArrive(r)
    \/ \E r \in ReqIds : DeleteArrive(r)
    \/ \E r \in ReqIds : Data(r)
    \/ \E r \in ReqIds : PostEnd(r)
    \/ \E r \in ReqIds : DeleteEnd(r)

Spec == Init /\ [][Next]_vars

----------------------------------------------------------------------------
(* Properties of the store behind the server (Spec) *)

Recs == readOverrides(file).list
PreRecs == readOverrides(last.pre).list

KeyIdx(list, k) == {i \in DOMAIN list : SameKey(list[i], k[1], k[2], k[3])}
ActiveIdx(list, k) == {i \in KeyIdx(list, k) : list[i].active}
Creates(h) == {i \in DOMAIN h : h[i] > 0}

\* C1: from an empty log, whatever Creates and Deletes were handled, no key
\* has more than one active record in the persisted log.
C1_AtMostOneActive ==
    \A k \in Keys : Cardinality(ActiveIdx(Recs, k)) <= 1

C1_Witness ==
    \E k \in Keys :
        /\ Cardinality(KeyIdx(Recs, k)) >= 2
        /\ Cardinality(ActiveIdx(Recs, k)) = 1
        /\ 0 \in {hist[k][i] : i \in DOMAIN hist[k]}

\* C2: after N Creates of a key and no Delete, handled in any interleaving of
\* the requests' chunks, the log holds N records of the key, exactly one is
\* active, it has version N, and the N Creates got N different versions.
C2_InterleavedCreates ==
    \A k \in Keys :
        (hist[k] # <<>> /\ Creates(hist[k]) = DOMAIN hist[k]) =>
            /\ Cardinality(KeyIdx(Recs, k)) = Len(hist[k])
            /\ Cardinality(ActiveIdx(Recs, k)) = 1
            /\ \A i \in ActiveIdx(Recs, k) : Recs[i].version = Len(hist[k])
            /\ \A i, j \in DOMAIN hist[k] : i # j => hist[k][i] # hist[k][j]

\* two Creates of one key were in flight together: the one handled last
\* arrived before the other was handled
C2_Witness ==
    /\ last.method = "POST" /\ last.resp.status = postStatus /\ last.overtaken
    /\ Len(hist[LastKey]) = Len(Recs)
    /\ Len(hist[LastKey]) >= 2
    /\ Creates(hist[LastKey]) = DOMAIN hist[LastKey]

\* C3: within a key the versions returned by Create strictly increase, with
\* or without Deletes in between; Create, Delete, Create gives 1 and then 2.
C3_VersionsIncrease ==
    \A k \in Keys :
        /\ \A i, j \in Creates(hist[k]) : i < j => hist[k][i] < hist[k][j]
        /\ (Len(hist[k]) >= 3 /\ hist[k][1] > 0 /\ hist[k][2] = 0 /\ hist[k][3] > 0)
                => (hist[k][1] = 1 /\ hist[k][3] = 2)

C3_Witness ==
    \E k \in Keys :
        /\ Len(hist[k]) = 3 /\ hist[k][1] > 0 /\ hist[k][2] = 0 /\ hist[k][3] > 0
        /\ last.method = "POST" /\ LastKey = k
        /\ KeyIdx(PreRecs, k) # {} /\ ActiveIdx(PreRecs, k) = {}

\* C5: a Delete of a key with no active record answers removed = false and
\* leaves the file as it was: no record added, no flag changed, and the next
\* Create of the key gets the version it would have got.
C5_DeleteOfInactiveIsNoOp ==
    (last.method = "DELETE" /\ LastKey \in Keys /\ ActiveIdx(PreRecs, LastKey) = {}) =>
        /\ last.resp = Resp(200, <<>>, FALSE, "")
        /\ file = last.pre
        /\ newVersion(Recs, last.lat, last.lon, last.date)
             = newVersion(PreRecs, last.lat, last.lon, last.date)

C5_Witness ==
    /\ last.method = "DELETE" /\ LastKey \in Keys
    /\ ActiveIdx(PreRecs, LastKey) = {} /\ KeyIdx(PreRecs, LastKey) # {}
    /\ last.resp.removed = FALSE

\* C8: no step removes a record: every (key, version) of the log is in the
\* log after the step, and the log does not get shorter.
C8_RecordsNeverRemoved ==
    [][/\ Len(readOverrides(file').list) >= Len(readOverrides(file).list)
       /\ \A i \in DOMAIN Recs : \E j \in DOMAIN readOverrides(file').list :
            /\ SameKey(readOverrides(file').list[j], Recs[i].lat, Recs[i].lon, Recs[i].date)
            /\ readOverrides(file').list[j].version = Recs[i].version]_vars

C8_Witness ==
    /\ last.method = "DELETE" /\ last.resp.removed
    /\ Len(Recs) >= 2 /\ Len(Recs) = Len(PreRecs)
    /\ \E i \in DOMAIN Recs : ~Recs[i].active

\* the properties a route requires of its body
Required(method) ==
    IF method = "POST" THEN {"lat", "lon", "date", "values"}
    ELSE {"lat", "lon", "date"}

\* the body is not JSON, or a required property is absent or the empty string
Malformed(body) == \E i \in DOMAIN body : body[i].f = "junk"
MissingField(method, body) ==
    \E n \in Required(method) :
        \A i \in DOMAIN body :
            body[i].f = n => (n # "values" /\ body[i].s = "")

\* C19: a POST or DELETE whose body is malformed or lacks a required field
\* is answered 400 and the log is what it was before the request; and any
\* POST or DELETE answered 400 has left the log as it was.
C19_RejectedLeavesLog ==
    last.method \in {"POST", "DELETE"} =>
        /\ (Malformed(last.body) \/ MissingField(last.method, last.body)) =>
                (last.resp.status = 400 /\ file = last.pre)
        /\ last.resp.status = 400 => file = last.pre

\* a POST without values was refused while the log held a record
C19_Witness ==
    /\ last.method = "POST" /\ last.resp.status = 400
    /\ ~Malformed(last.body) /\ MissingField("POST", last.body)
    /\ PreRecs # <<>> /\ file = last.pre

----------------------------------------------------------------------------
(* SpecStore: the three routes, one request at a time, on any file content *)

Seqs(S, n) == UNION {[1..m -> S] : m \in 0..n}

InitRecs ==
    {[lat |-> k[1], lon |-> k[2], date |-> k[3], newValues |-> NoValues,
      updatedBy |-> "anonymous", version |-> v, active |-> a] :
        k \in Keys, v \in InitVersions, a \in BOOLEAN}

InitFiles ==
    {BadFile(kind) : kind \in BadKinds}
        \cup {ArrayFile(list) : list \in Seqs(InitRecs, MaxInitLen)}

InitStore ==
    /\ file \in InitFiles
    /\ running = TRUE
    /\ reqs = [r \in ReqIds |-> FreeReq]
    /\ arrived = 0
    /\ hist = [k \in AllKeys |-> <<>>]
    /\ last = NothingHandled(file)
    /\ ClientIdle

StoreStep(l, f, alive) ==
    /\ running /\ arrived < MaxStoreOps
    /\ arrived' = arrived + 1
    /\ file' = f
    /\ last' = l
    /\ hist' = Recorded(hist, l)
    /\ running' \in alive
    /\ UNCHANGED reqs
    /\ UNCHANGED clientVars

StoreGet(k) ==
    LET out == getHandler(file, k[1], k[2], k[3])
    IN  StoreStep([NothingHandled(file) EXCEPT !.method = "GET", !.lat = k[1],
                        !.lon = k[2], !.date = k[3], !.resp = out.resp],
                  out.file, IF out.unhandled THEN BOOLEAN ELSE {TRUE})

StorePost(k, v) ==
    LET out == postHandler(file, PostBody(k, v))
    IN  StoreStep(Handled("POST", PostBody(k, v), file, out.resp, FALSE),
                  out.file, {TRUE})

StoreDelete(k) ==
    LET out == deleteHandler(file, DeleteBody(k))
    IN  StoreStep(Handled("DELETE", DeleteBody(k), file, out.resp, FALSE),
                  out.file, {TRUE})

NextStore ==
    \/ \E k \in Keys : StoreGet(k)
    \/ \E k \in Keys, v \in Values : StorePost(k, v)
    \/ \E k \in Keys : StoreDelete(k)

SpecStore == InitStore /\ [][NextStore]_vars

----------------------------------------------------------------------------
(* Properties of the store operations on any log (SpecStore) *)

MaxOf(S) == CHOOSE x \in S : \A y \in S : y <= x
LatestNow(k) == getLatestOverride(file, k[1], k[2], k[3])
LastMutation(k) == IF hist[k] = <<>> THEN -1 ELSE hist[k][Len(hist[k])]

\* C4: once a Delete of a key is done no record of the key is active, however
\* many were, and reading the key gives absent until its next Create; right
\* after a Create, reading the key gives the created record.
C4_DeleteThenAbsent ==
    /\ (last.method = "DELETE" /\ last.resp.status = 200) =>
            /\ ActiveIdx(Recs, LastKey) = {}
            /\ LatestNow(LastKey) = Returned(<<>>, file)
    /\ \A k \in Keys : LastMutation(k) = 0 =>
            /\ ActiveIdx(Recs, k) = {}
            /\ (last.method = "GET" /\ LastKey = k) => last.resp = Resp(200, <<>>, FALSE, "")
    /\ (last.method = "POST" /\ last.resp.status = postStatus) =>
            /\ LatestNow(LastKey).val = last.resp.rec
            /\ last.resp.rec[1].active
            /\ last.resp.rec[1].newValues = last.values
    /\ \A k \in Keys : (LastMutation(k) > 0 /\ last.method = "GET" /\ LastKey = k) =>
            /\ last.resp.status = 200 /\ Len(last.resp.rec) = 1
            /\ last.resp.rec[1].active
            /\ last.resp.rec[1].version = LastMutation(k)
            /\ last.resp.rec[1] = Recs[MaxOf(KeyIdx(Recs, k))]

C4_Witness ==
    /\ last.method = "DELETE" /\ last.resp.removed
    /\ Cardinality(ActiveIdx(PreRecs, LastKey)) >= 2

\* C6: on any log, reading a key gives absent exactly when the key has no
\* active record, and otherwise an active record of the key whose version is
\* the largest among the key's active records; it does not fail.
C6_LatestActive ==
    (last.method = "GET" /\ last.pre.kind = "array") =>
        /\ last.resp.status = 200
        /\ (last.resp.rec = <<>>) <=> (ActiveIdx(PreRecs, LastKey) = {})
        /\ last.resp.rec # <<>> =>
            /\ \E i \in ActiveIdx(PreRecs, LastKey) : PreRecs[i] = last.resp.rec[1]
            /\ last.resp.rec[1].version
                 = MaxOf({PreRecs[i].version : i \in ActiveIdx(PreRecs, LastKey)})

C6_Witness ==
    /\ last.method = "GET" /\ last.resp.rec # <<>>
    /\ \E i, j \in ActiveIdx(PreRecs, LastKey) :
            i < j /\ PreRecs[i].version > PreRecs[j].version

\* C7: from any log, a Create leaves exactly one active record of the key,
\* the record it appended, whose version is one more than the largest
\* version the key's records had (1 when the key had none).
C7_CreateSupersedes ==
    (last.method = "POST" /\ last.pre.kind # "object") =>
        /\ last.resp.status = postStatus
        /\ Len(Recs) = Len(PreRecs) + 1
        /\ ActiveIdx(Recs, LastKey) = {Len(Recs)}
        /\ Recs[Len(Recs)] = last.resp.rec[1]
        /\ Recs[Len(Recs)].version
             = MaxOf({PreRecs[i].version : i \in KeyIdx(PreRecs, LastKey)} \cup {0}) + 1

C7_Witness ==
    /\ last.method = "POST" /\ last.resp.status = postStatus
    /\ Cardinality(ActiveIdx(PreRecs, LastKey)) >= 2
    /\ \E i \in KeyIdx(PreRecs, LastKey) : PreRecs[i].version = 2

\* C9: a request served from an absent, empty, unparseable or non-array file
\* is answered as from an empty log, and the server keeps running.
C9_BadFileIsEmptyLog ==
    (last.method # "NONE" /\ last.pre.kind \in BadKinds) =>
        /\ running
        /\ last.method = "GET" => last.resp = Resp(200, <<>>, FALSE, "")
        /\ last.method = "DELETE" => last.resp = Resp(200, <<>>, FALSE, "")
        /\ last.method = "POST" =>
            /\ last.resp.status = postStatus
            /\ last.resp.rec[1].version = 1
            /\ Recs = last.resp.rec

KeyOf(o) == <<o.lat, o.lon, o.date>>

\* C22: a Create or Delete of key k leaves every record whose lat, lon and
\* date are not exactly the strings of k as it was, at its position in the
\* log, also when its key differs from k only in how a coordinate is
\* written; a record the request adds has the key k.
C22_OtherKeysUntouched ==
    last.method \in {"POST", "DELETE"} =>
        /\ Len(Recs) >= Len(PreRecs)
        /\ \A i \in DOMAIN PreRecs :
               KeyOf(PreRecs[i]) # LastKey => Recs[i] = PreRecs[i]
        /\ \A i \in DOMAIN Recs \ DOMAIN PreRecs : KeyOf(Recs[i]) = LastKey

\* a Create of 17.385 deactivated a record of its key and left an active
\* record of 17.3850 active
C22_Witness ==
    /\ last.method = "POST" /\ last.resp.status = postStatus
    /\ \E i, j \in DOMAIN PreRecs :
        /\ KeyOf(PreRecs[i]) = LastKey /\ PreRecs[i].active /\ ~Recs[i].active
        /\ PreRecs[j].lat # last.lat /\ PreRecs[j].lon = last.lon
        /\ PreRecs[j].date = last.date
        /\ PreRecs[j].active /\ Recs[j].active

----------------------------------------------------------------------------
(* The client: part_000 44-369 *)

DEFAULT_LOCATION == [lat |-> "17.385", lon |-> "78.4867"]

\* String(parseFloat(input)) for the texts typed into lat-input and lon-input
FloatString(input) ==
    CASE input = "12.50" -> "12.5"
      [] input = "78.48670" -> "78.4867"
      [] OTHER -> input
LatInputs == {"17.385", "12.50"}
LonInputs == {"78.4867", "78.48670"}

DateKeys == {"today", "tomorrow"}

\* the calendar date of today + offset in the location's time zone, on the
\* day of the run
getDateString(dateKey) ==
    CASE dateKey = "tomorrow" -> "2024-01-02"
      [] dateKey = "dayafter" -> "2024-01-03"
      [] OTHER -> "2024-01-01"

\* `${locationData.lat},${locationData.lon},${dateString}`
cacheKey(loc, dateString) == <<loc.lat, loc.lon, dateString>>

\* the values of the update form: every field of the form is sent
FormValues ==
    [tempC |-> 28, humidityPct |-> 50, windKph |-> 10, precipMm |-> 0,
     conditionText |-> "Sunny"]

----------------------------------------------------------------------------
(* The forecast cache: fetchWeather, part_000 98-189 *)

\* Date.now() is counted in units of five minutes
TTL == 3        \* 15 * 60 * 1000 ms

\* localStorage weatherCache: an object from cache keys to {data, timestamp}
EmptyCache == [k \in {} |-> 0]

FreshInclusive(cache, key, t) ==
    key \in DOMAIN cache /\ t - cache[key].timestamp <= TTL

\* cache[cacheKey] && now - cache[cacheKey].timestamp < 15 * 60 * 1000
Fresh(cache, key, t) ==
    key \in DOMAIN cache /\ t - cache[key].timestamp < TTL

cacheEntryShown(weather, t) ==
    [data |-> IF currentOverride = <<>> THEN weather
              ELSE [f \in DOMAIN weather |->
                        IF f \in DOMAIN currentOverride[1].newValues
                        THEN currentOverride[1].newValues[f] ELSE weather[f]],
     timestamp |-> t]

\* { data: weather, timestamp: now }
cacheEntry(weather, t) ==
    [data |-> weather, timestamp |-> t]

\* cache[cacheKey] = entry
cachePut(cache, key, entry) ==
    [k \in DOMAIN cache \cup {key} |-> IF k = key THEN entry ELSE cache[k]]

\* delete cache[cacheKey]
cacheDelete(cache, key) ==
    [k \in DOMAIN cache \ {key} |-> cache[k]]

\* one element of weather[].hourly of wttr.in; the numbers are the texts
\* parseFloat reads
Hour(tempC, humidity, windspeedKmph, precipMM, weatherDesc, weatherCode) ==
    [tempC |-> tempC, humidity |-> humidity, windspeedKmph |-> windspeedKmph,
     precipMM |-> precipMM, weatherDesc |-> weatherDesc, weatherCode |-> weatherCode]

Forecast ==
    <<[date |-> "2024-01-01",
       hourly |-> <<Hour(20, 60, 10, 0, "Sunny", 113),
                    Hour(25, 55, 13, 1, "Partly cloudy ", 116)>>],
      [date |-> "2024-01-02",
       hourly |-> <<Hour(18, 80, 20, 2, "Mist", 143),
                    Hour(19, 81, 21, 3, " Light rain", 296),
                    Hour(19, 84, 24, 2, "Cloudy", 119)>>]>>

\* what the request to wttr.in comes to: the fetch rejects, the answer is
\* not ok, or it is JSON with a weather array
Answer(rejected, ok, weather) ==
    [rejected |-> rejected, ok |-> ok, weather |-> weather]
UpstreamAnswers ==
    {Answer(TRUE, FALSE, <<>>), Answer(FALSE, FALSE, <<>>),
     Answer(FALSE, TRUE, <<>>),
     Answer(FALSE, TRUE, <<[date |-> "2024-01-01", hourly |-> <<>>]>>),
     Answer(FALSE, TRUE, Forecast)}

RECURSIVE Sum(_, _)
Sum(hourly, field) ==
    IF hourly = <<>> THEN 0 ELSE hourly[1][field] + Sum(Tail(hourly), field)

\* parseFloat((sum / count).toFixed(1)), written in tenths
toFixed1(sum, count) == (20 * sum + count) \div (2 * count)

\* Math.round(sum / count)
MathRound(sum, count) == (2 * sum + count) \div (2 * count)

\* String.prototype.trim on the descriptions of Forecast
trim(s) ==
    CASE s = "Partly cloudy " -> "Partly cloudy"
      [] s = " Light rain" -> "Light rain"
      [] OTHER -> s

weatherCodeToIcon(code) ==
    IF code = 113 THEN "sun"
    ELSE IF code \in {116, 119, 122} THEN "sun behind cloud"
    ELSE IF code \in {143, 248, 260} THEN "fog"
    ELSE IF code \in {176, 200, 263, 266, 281, 284, 293, 296, 299, 302, 305,
                      308, 311, 314, 353, 356, 359, 386, 389} THEN "rain"
    ELSE IF code \in {179, 227, 230, 317, 320, 323, 326, 329, 332, 335, 338,
                      350, 368, 371, 374, 377, 392, 395} THEN "snow"
    ELSE "cloud"

\* the snapshot reduced from the hourly series (125-162); tempC, windKph and
\* precipMm are written in tenths
weatherOf(hourly) ==
    LET count == Len(hourly)
        condition == hourly[count \div 2 + 1]
    IN  [tempC |-> toFixed1(Sum(hourly, "tempC"), count),
         humidityPct |-> MathRound(Sum(hourly, "humidity"), count),
         windKph |-> toFixed1(Sum(hourly, "windspeedKmph"), count),
         precipMm |-> 10 * Sum(hourly, "precipMM"),
         conditionText |-> trim(condition.weatherDesc),
         conditionIcon |-> weatherCodeToIcon(condition.weatherCode),
         source |-> "api"]

\* weatherArr.find(item => item.date === dateString) || weatherArr[0]
weatherDay(weatherArr, dateString) ==
    LET hits == {i \in DOMAIN weatherArr : weatherArr[i].date = dateString}
    IN  IF hits = {} THEN weatherArr[1]
        ELSE weatherArr[CHOOSE i \in hits : \A j \in hits : i <= j]

RejectedClearing(message, cache) ==
    [threw |-> TRUE, message |-> message, weather |-> NoValues,
     wrote |-> TRUE, cache |-> EmptyCache]

\* fetchWeather throws, or the awaited fetch rejects: nothing is stored
Rejected(message, cache) ==
    [threw |-> TRUE, message |-> message, weather |-> NoValues,
     wrote |-> FALSE, cache |-> cache]

\* fetchWeather from the answer of wttr.in on (114-166): cache is the object
\* read before the request, t the Date.now() read before it
fetchWeatherResume(cache, key, t, ans) ==
    LET hourly == weatherDay(ans.weather, key[3]).hourly
        weather == weatherOf(hourly)
    IN  IF ans.rejected THEN Rejected("Failed to fetch", cache)
        ELSE IF ~ans.ok THEN Rejected("Failed to fetch weather data", cache)
        ELSE IF ans.weather = <<>>
        THEN Rejected("Cannot read properties of undefined", cache)
        ELSE IF hourly = <<>> THEN Rejected("No hourly data available", cache)
        ELSE [threw |-> FALSE, message |-> "", weather |-> weather,
              wrote |-> TRUE,
              cache |-> cachePut(cache, key, cacheEntry(weather, t))]

----------------------------------------------------------------------------
(* Loading and display: part_000 71-95, 192-258, 363-369 *)

\* the weather card and the status line; key is the cache key of the load
\* that was rendered
NoCard ==
    [hidden |-> TRUE, status |-> "", error |-> FALSE, data |-> NoValues,
     source |-> <<>>, key |-> <<>>]

\* showStatus(msg, type)
showStatus(c, msg, type) ==
    [c EXCEPT !.status = msg, !.error = (type = "error")]

cardAfterErrorShown(c, message) ==
    showStatus(c, IF message = "" THEN "Error loading weather" ELSE message,
               "error")

\* the catch of loadWeather (235-239)
cardAfterError(c, message) ==
    [showStatus(c, IF message = "" THEN "Error loading weather" ELSE message,
                "error") EXCEPT !.hidden = TRUE]

mergeAll(weather, override) ==
    [combined |-> IF override = <<>> THEN weather ELSE override[1].newValues,
     source |-> IF override = <<>> THEN <<"API">>
                ELSE <<"Override (v", override[1].version, ")">>]

\* loadWeather 224-230: { ...combined, ...override.newValues } and
\* `Override (v${override.version})`
merge(weather, override) ==
    [combined |->
        IF override = <<>> THEN weather
        ELSE [f \in DOMAIN weather \cup DOMAIN override[1].newValues |->
                IF f \in DOMAIN override[1].newValues
                THEN override[1].newValues[f] ELSE weather[f]],
     source |-> IF override = <<>> THEN <<"API">>
                ELSE <<"Override (v", override[1].version, ")">>]

\* renderWeather (243-250) and showStatus("", "info")
renderWeather(c, data, source, key) ==
    [showStatus(c, "", "info") EXCEPT !.hidden = FALSE, !.data = data,
                                      !.source = source, !.key = key]

\* fetchOverride 199-201: data && data.newValues ? data : null, of the body
\* of a 200 answer
fetchOverride(resp) ==
    IF resp.rec # <<>> /\ "newValues" \in DOMAIN resp.rec[1] THEN resp.rec
    ELSE <<>>

Remove(s, i) == SubSeq(s, 1, i - 1) \o SubSeq(s, i + 1, Len(s))

\* fetchWeather up to its first await (98-113): the cache is read, and on a
\* miss the upstream request leaves with the cache object and the time as
\* read; on a hit loadWeather goes on to fetchOverride with the location as
\* it is then. fetches counts the requests to wttr.in the load has issued.
NewLoad(loc, dateKey, cache, t) ==
    LET key == cacheKey(loc, getDateString(dateKey))
    IN  IF Fresh(cache, key, t)
        THEN [st |-> "override", dateString |-> getDateString(dateKey),
              key |-> key, cache |-> EmptyCache, calledAt |-> 0,
              weather |-> cache[key].data, query |-> key, fetches |-> 0]
        ELSE [st |-> "weather", dateString |-> getDateString(dateKey),
              key |-> key, cache |-> cache, calledAt |-> t,
              weather |-> NoValues, query |-> key, fetches |-> 1]

\* loadWeather(dateKey) up to its first await that yields (205-223)
loadWeather(loc, dateKey, cache) ==
    LET l == NewLoad(loc, dateKey, cache, now)
    IN  /\ currentDateKey' = dateKey
        /\ card' = showStatus(card, "Loading...", "info")
        /\ loads' = Append(loads, l)
        /\ currentWeather' =
            IF l.st = "override" THEN <<[key |-> l.key, data |-> l.weather]>>
            ELSE currentWeather

\* initLocation(); loadWeather("today") with nothing in localStorage, the
\* store empty or holding an override another session created. The card and
\* remove-btn start hidden: renderWeather is the code that shows them.
InitClient ==
    /\ file \in {ArrayFile(<<>>),
                 ArrayFile(<<[lat |-> "17.385", lon |-> "78.4867", date |-> "2024-01-01",
                              newValues |-> TempOnly, updatedBy |-> "anonymous",
                              version |-> 1, active |-> TRUE]>>)}
    /\ running = TRUE
    /\ reqs = [r \in ReqIds |-> FreeReq]
    /\ arrived = 0
    /\ hist = [k \in AllKeys |-> <<>>]
    /\ last = NothingHandled(file)
    /\ locationData = DEFAULT_LOCATION
    /\ currentDateKey = "today"
    /\ currentWeather = <<>>
    /\ currentOverride = <<>>
    /\ removeHidden = TRUE
    /\ weatherCache = EmptyCache
    /\ muts = {}
    /\ loads = <<NewLoad(DEFAULT_LOCATION, "today", EmptyCache, 0)>>
    /\ sent = 0
    /\ inval = NoInval
    /\ now = 0
    /\ card = showStatus(NoCard, "Loading...", "info")
    /\ ended = "none"

unchangedServer == UNCHANGED <<running, reqs, arrived, hist, last>>

\* a date button (363-365)
SelectDate(dateKey) ==
    /\ Len(loads) < MaxLoads
    /\ loadWeather(locationData, dateKey, weatherCache)
    /\ UNCHANGED <<file, locationData, currentOverride, removeHidden,
                   weatherCache, muts, sent, inval, now, ended>>
    /\ unchangedServer

\* save-location (71-77): locationData is mutated in place, then a load
saveLocationData(latInput, lonInput) ==
    /\ Len(loads) < MaxLoads
    /\ locationData' = [lat |-> FloatString(latInput), lon |-> FloatString(lonInput)]
    /\ loadWeather(locationData', currentDateKey, weatherCache)
    /\ UNCHANGED <<file, currentOverride, removeHidden, weatherCache, muts,
                   sent, inval, now, ended>>
    /\ unchangedServer

\* fetch rejects or answers not ok, or fetchWeather throws: the catch of
\* loadWeather (235-239) ends the load
LoadFail(i, message) ==
    /\ loads' = Remove(loads, i)
    /\ card' = cardAfterError(card, message)
    /\ ended' = IF loads[i].st = "weather" THEN "weatherFailed"
                ELSE "overrideFailed"

\* the answer of wttr.in reaches fetchWeather (114-166): the cache object
\* read before the request gets the entry and is stored whole; then
\* fetchOverride (192-198) leaves with the location as it is now
WeatherDone(i, ans) ==
    LET l == loads[i]
        out == fetchWeatherResume(l.cache, l.key, l.calledAt, ans)
    IN  /\ l.st = "weather"
        /\ weatherCache' = IF out.wrote THEN out.cache ELSE weatherCache
        /\ IF out.threw
           THEN /\ LoadFail(i, out.message)
                /\ UNCHANGED currentWeather
           ELSE /\ currentWeather' = <<[key |-> l.key, data |-> out.weather]>>
                /\ loads' = [loads EXCEPT ![i] =
                                [l EXCEPT !.st = "override",
                                          !.cache = EmptyCache, !.calledAt = 0,
                                          !.weather = out.weather,
                                          !.query = cacheKey(locationData, l.dateString)]]
                /\ UNCHANGED <<card, ended>>
        /\ UNCHANGED <<file, locationData, currentDateKey, currentOverride,
                       removeHidden, muts, sent, inval, now>>
        /\ unchangedServer

\* what the request to GET /override comes to: the fetch rejects, something
\* on the way answers not ok, or the server answers
Vias == {"rejected", "not ok", "server"}

\* GET /override is answered from the file as it is (server.js 148-157),
\* then fetchOverride 198-201, loadWeather 222-234 and renderWeather
OverrideDone(i, via) ==
    LET l == loads[i]
        out == getHandler(file, l.query[1], l.query[2], l.query[3])
        override == fetchOverride(out.resp)
        m == merge(l.weather, override)
    IN  /\ l.st = "override"
        /\ file' = (IF via = "server" THEN out.file ELSE file)
        /\ IF via = "server" /\ out.resp.status \in 200..299
           THEN /\ currentOverride' = override
                /\ card' = renderWeather(card, m.combined, m.source, l.key)
                /\ removeHidden' = ~(override # <<>> /\ override[1].active)
                /\ loads' = Remove(loads, i)
                /\ ended' = "rendered"
           ELSE /\ LoadFail(i, IF via = "rejected" THEN "Failed to fetch"
                               ELSE "Failed to fetch override")
                /\ UNCHANGED <<currentOverride, removeHidden>>
        /\ UNCHANGED <<locationData, currentDateKey, currentWeather,
                       weatherCache, muts, sent, inval, now>>
        /\ unchangedServer

\* time passes
Tick ==
    /\ now < MaxTime
    /\ now' = now + 1
    /\ UNCHANGED <<file, running, reqs, arrived, hist, last, locationData,
                   currentDateKey, currentWeather, currentOverride,
                   removeHidden, weatherCache, muts, loads, sent, inval,
                   card, ended>>

----------------------------------------------------------------------------
(* The mutation handlers: part_000 279-360 *)

NewMutation(method, loc, dateKey, values) ==
    [method |-> method, st |-> "sent", ok |-> FALSE,
     key |-> cacheKey(loc, getDateString(dateKey)),
     dateString |-> getDateString(dateKey), values |-> values]

Send(m) ==
    /\ sent < MaxSent
    /\ sent' = sent + 1
    /\ muts' = muts \cup {m}
    /\ UNCHANGED <<file, locationData, currentDateKey, currentWeather,
                   currentOverride, removeHidden, weatherCache, loads, inval,
                   now, card, ended>>
    /\ unchangedServer

\* update-form submit up to its fetch (279-304); the modal opens only once
\* a snapshot was loaded (262)
Submit ==
    /\ currentWeather # <<>>
    /\ Send(NewMutation("POST", locationData, currentDateKey, FormValues))

\* remove-btn click up to its fetch (327-341)
RemoveClick ==
    /\ ~removeHidden
    /\ Send(NewMutation("DELETE", locationData, currentDateKey, NoValues))

\* the server handles the request (server.js 162-178, 183-199)
ServerHandles(m) ==
    LET out == IF m.method = "POST"
               THEN postHandler(file, PostBody(m.key, m.values))
               ELSE deleteHandler(file, DeleteBody(m.key))
    IN  /\ m \in muts /\ m.st = "sent"
        /\ file' = out.file
        /\ muts' = (muts \ {m}) \cup
                    {[m EXCEPT !.st = "answered",
                               !.ok = out.resp.status \in 200..299]}
        /\ UNCHANGED <<locationData, currentDateKey, currentWeather, currentOverride,
                       removeHidden, weatherCache, loads, sent, inval, now,
                       card, ended>>
        /\ unchangedServer

\* fetch rejects, or !resp.ok: the catch (320-323, 356-359)
MutationFail(m) ==
    /\ m \in muts /\ (m.st = "sent" \/ ~m.ok)
    /\ muts' = muts \ {m}
    /\ card' = showStatus(card, IF m.st = "sent" THEN "Failed to fetch"
                                ELSE IF m.method = "POST"
                                THEN "Failed to save override"
                                ELSE "Failed to remove override", "error")
    /\ UNCHANGED <<file, locationData, currentDateKey, currentWeather,
                   currentOverride, removeHidden, weatherCache, loads, sent,
                   inval, now, ended>>
    /\ unchangedServer

\* const cacheKey = `${locationData.lat},${locationData.lon},${dateString}`
\* (309, 345): the location as it is after the await, the date as it was sent
invalidatedKey(m, loc) == cacheKey(loc, m.dateString)

\* after resp.ok (305-319, 342-355): the cache entry is deleted, the cache
\* stored, and loadWeather(currentDateKey) reads the cache
MutationDone(m) ==
    /\ m \in muts /\ m.st = "answered" /\ m.ok
    /\ muts' = muts \ {m}
    /\ weatherCache' = cacheDelete(weatherCache, invalidatedKey(m, locationData))
    /\ inval' = [done |-> TRUE, sent |-> m.key,
                 removed |-> invalidatedKey(m, locationData),
                 stillCached |-> m.key \in DOMAIN weatherCache']
    /\ loadWeather(locationData, currentDateKey, weatherCache')
    /\ UNCHANGED <<file, locationData, currentOverride, removeHidden, sent,
                   now, ended>>
    /\ unchangedServer

----------------------------------------------------------------------------
(* SpecClient: one session, its loads and its mutations against the       *)
(* server; the user starts a load when the last has ended                 *)

NextClient ==
    \/ \E d \in DateKeys : loads = <<>> /\ SelectDate(d)
    \/ \E la \in LatInputs, lo \in LonInputs :
            loads = <<>> /\ saveLocationData(la, lo)
    \/ \E i \in DOMAIN loads, ans \in UpstreamAnswers : WeatherDone(i, ans)
    \/ \E i \in DOMAIN loads, via \in Vias : OverrideDone(i, via)
    \/ Submit
    \/ RemoveClick
    \/ \E m \in muts : ServerHandles(m)
    \/ \E m \in muts : MutationFail(m)
    \/ \E m \in muts : MutationDone(m)

SpecClient == InitClient /\ [][NextClient]_vars

\* C10: when the handler of a successful Create or Delete has removed a
\* cache entry and starts its reload, the cache holds no entry for the key
\* that was sent in the request, whatever the user did while the request
\* was in flight.
C10_InvalidatesSentKey ==
    inval.done => ~inval.stillCached

\* the load at position i got its forecast from wttr.in in this step
Fetched(i) ==
    /\ i \in DOMAIN loads /\ i \in DOMAIN loads'
    /\ Len(loads') = Len(loads)
    /\ loads[i].st = "weather" /\ loads'[i].st = "override"

\* C12: once a mutation handler has deleted the cache entry of a key, an
\* entry of that key comes back into the stored cache only by the completion
\* of an upstream fetch for that key, whatever loads were in flight when the
\* entry was deleted.
C12_InvalidatedStaysOut ==
    [][(/\ inval.done
        /\ inval.removed \notin DOMAIN weatherCache
        /\ inval.removed \in DOMAIN weatherCache')
            => \E i \in DOMAIN loads : Fetched(i) /\ loads[i].key = inval.removed]_vars

----------------------------------------------------------------------------
(* SpecCache: one session, a load started when the last has ended, while  *)
(* time passes; the store is left alone                                   *)

NextCache ==
    \/ \E d \in DateKeys : loads = <<>> /\ SelectDate(d)
    \/ \E i \in DOMAIN loads, ans \in UpstreamAnswers : WeatherDone(i, ans)
    \/ \E i \in DOMAIN loads, via \in Vias : OverrideDone(i, via)
    \/ Tick

SpecCache == InitClient /\ [][NextCache]_vars

\* the load started in this step
Started == loads'[Len(loads')]

\* C13: a call is served from the cache exactly when the cache it reads
\* holds an entry of its key that is less than 15 minutes old, and it is
\* then given that entry's snapshot; at 15 minutes or more the call goes
\* upstream.
C13_ServedOnlyWhenFresh ==
    [][Len(loads') > Len(loads) =>
        LET held == Started.key \in DOMAIN weatherCache'
            age == now' - weatherCache'[Started.key].timestamp
        IN  /\ Started.st = "override" <=> (held /\ age < TTL)
            /\ Started.st = "override" =>
                   Started.weather = weatherCache'[Started.key].data
            /\ Started.st = "weather" => Started.fetches = 1]_vars

\* a call found its key's entry exactly 15 minutes old and went upstream
C13_Witness ==
    \E i \in DOMAIN loads :
        /\ loads[i].st = "weather" /\ loads[i].calledAt = now
        /\ loads[i].key \in DOMAIN weatherCache
        /\ now - weatherCache[loads[i].key].timestamp = TTL

\* the load at position i ended in this step
Ended(i) == i \in DOMAIN loads /\ loads' = Remove(loads, i)

\* C14: a call whose upstream fetch fails (the request rejects, the answer
\* is not ok, it has no day, or the day has no hourly series) ends in the
\* error status, and the stored cache is then what the call read when it
\* began and what it was before the failure.
C14_FailedFetchKeepsCache ==
    [][\A i \in DOMAIN loads :
        (Ended(i) /\ loads[i].st = "weather") =>
            /\ weatherCache' = weatherCache
            /\ weatherCache' = loads[i].cache
            /\ card'.error /\ card'.status # ""
            /\ ended' = "weatherFailed"]_vars

\* a fetch failed while the stored cache held an entry 15 minutes old
C14_Witness ==
    /\ ended = "weatherFailed"
    /\ card.error
    /\ weatherCache # EmptyCache
    /\ \E k \in DOMAIN weatherCache : now - weatherCache[k].timestamp >= TTL

----------------------------------------------------------------------------
(* SpecLoad: one session, a load started when the last has ended, while   *)
(* other sessions create and delete                                       *)

\* the keys of Keys the session can look at
SharedKeys == Keys \cap ClientKeys

NextLoad ==
    \/ \E d \in DateKeys : loads = <<>> /\ SelectDate(d)
    \/ \E la \in LatInputs, lo \in LonInputs :
            loads = <<>> /\ saveLocationData(la, lo)
    \/ \E i \in DOMAIN loads, ans \in UpstreamAnswers : WeatherDone(i, ans)
    \/ \E i \in DOMAIN loads, via \in Vias : OverrideDone(i, via)
    \/ \E k \in SharedKeys, v \in Values : StorePost(k, v)
    \/ \E k \in SharedKeys : StoreDelete(k)

SpecLoad == InitClient /\ [][NextLoad]_vars

\* the active record of key k with the highest version, in a sequence
ActiveOf(list, k) ==
    LET act == ActiveIdx(list, k)
    IN  IF act = {} THEN <<>>
        ELSE <<list[CHOOSE i \in act :
                        \A j \in act : list[j].version <= list[i].version]>>

\* C15: a load that renders shows, when the log holds no active record of
\* the key it asked for, its baseline with provenance API; and when it
\* holds one, the record's value for every field of its newValues (there
\* may be none), the baseline's value for every other field, and the
\* provenance Override (v<version>).
C15_FieldLevelMerge ==
    [][\A i \in DOMAIN loads :
        (Ended(i) /\ loads[i].st = "override" /\ ended' = "rendered") =>
            LET base == loads[i].weather
                r == ActiveOf(Recs, loads[i].query)
            IN  /\ ~card'.hidden
                /\ r = <<>> => (card'.data = base /\ card'.source = <<"API">>)
                /\ r # <<>> =>
                    /\ DOMAIN card'.data = DOMAIN base \cup DOMAIN r[1].newValues
                    /\ \A f \in DOMAIN r[1].newValues :
                           card'.data[f] = r[1].newValues[f]
                    /\ \A f \in DOMAIN base \ DOMAIN r[1].newValues :
                           card'.data[f] = base[f]
                    /\ card'.source = <<"Override (v", r[1].version, ")">>]_vars

\* the card shows version 2 of an override of the temperature alone, which
\* replaced one without values, over the humidity of the forecast
C15_Witness ==
    /\ ended = "rendered" /\ ~card.hidden
    /\ card.source = <<"Override (v", 2, ")">>
    /\ card.data.tempC = TempOnly.tempC
    /\ card.data.humidityPct = weatherOf(Forecast[1].hourly).humidityPct
    /\ \E i \in DOMAIN Recs : Recs[i].newValues = NoValues

\* the snapshot wttr.in gives for the date of a key
ApiSnapshot(k) == weatherOf(weatherDay(Forecast, k[3]).hourly)

\* C16: every snapshot in the stored cache is the one reduced from the
\* answer of wttr.in, with source api and no value of an override; the step
\* that merges and renders leaves the stored cache as it is; and no step of
\* a load changes the log.
C16_MergeWritesNothing ==
    [][/\ \A k \in DOMAIN weatherCache' :
            /\ weatherCache'[k].data = ApiSnapshot(k)
            /\ weatherCache'[k].data.source = "api"
            /\ \A f \in DOMAIN FormValues :
                   weatherCache'[k].data[f] # FormValues[f]
       /\ \A i \in DOMAIN loads :
            (Ended(i) /\ loads[i].st = "override") => weatherCache' = weatherCache
       /\ loads' # loads => file' = file]_vars

\* an override is shown over a cached forecast
C16_Witness ==
    /\ ended = "rendered" /\ ~card.hidden
    /\ card.source # <<"API">>
    /\ card.key \in DOMAIN weatherCache
    /\ card.data.tempC # weatherCache[card.key].data.tempC
    /\ Cardinality(DOMAIN weatherCache) >= 2

\* C17: when the baseline was obtained and the read of the override failed,
\* the load ends with the card shown and the provenance API.
C17_OverrideFailureDegrades ==
    ended = "overrideFailed" => (~card.hidden /\ card.source = <<"API">>)

\* C18: a load whose upstream fetch fails has issued one request to
\* wttr.in, and it ends with an error message in the status line and the
\* card hidden.
C18_FailedLoadHidesCard ==
    [][\A i \in DOMAIN loads :
        (Ended(i) /\ loads[i].st = "weather") =>
            /\ loads[i].fetches = 1
            /\ card'.hidden
            /\ card'.error /\ card'.status \notin {"", "Loading..."}]_vars

\* the fetch failed after a forecast had been shown and while the cache
\* holds a snapshot
C18_Witness ==
    /\ ended = "weatherFailed"
    /\ card.hidden /\ card.error
    /\ card.data # NoValues
    /\ currentWeather # <<>>
    /\ weatherCache # EmptyCache

----------------------------------------------------------------------------
(* SpecRace: one session, the user does not wait for a load to end *)

NextRace ==
    \/ \E d \in DateKeys : SelectDate(d)
    \/ \E la \in LatInputs, lo \in LonInputs : saveLocationData(la, lo)
    \/ \E i \in DOMAIN loads, ans \in UpstreamAnswers : WeatherDone(i, ans)
    \/ \E i \in DOMAIN loads, via \in Vias : OverrideDone(i, via)

SpecRace == InitClient /\ [][NextRace]_vars

\* C11: an upstream fetch for a key completes only if the stored cache holds
\* no entry of that key fetched by a call less than 15 minutes before or
\* after the call of this fetch: no two fetches for a key within one
\* freshness window.
C11_OneFetchPerWindow ==
    [][\A i \in DOMAIN loads :
        (Fetched(i) /\ loads[i].key \in DOMAIN weatherCache) =>
            LET d == loads[i].calledAt - weatherCache[loads[i].key].timestamp
            IN  d >= TTL \/ 0 - d >= TTL]_vars

\* C20: when no load is in flight and the card is shown, it shows the load
\* of the selected date at the location in locationData, and currentWeather
\* is the snapshot of that key.
C20_DisplayIsSelection ==
    (loads = <<>> /\ ~card.hidden) =>
        /\ card.key = cacheKey(locationData, getDateString(currentDateKey))
        /\ currentWeather # <<>>
        /\ currentWeather[1].key = cacheKey(locationData, getDateString(currentDateKey))

\* C21: the step in which an upstream fetch for a key completes leaves the
\* stored cache entry of every other key as it is: none is removed, replaced
\* or put back.
C21_FetchTouchesOwnEntry ==
    [][\A i \in DOMAIN loads :
        Fetched(i) =>
            \A k \in (DOMAIN weatherCache \cup DOMAIN weatherCache') \ {loads[i].key} :
                /\ k \in DOMAIN weatherCache /\ k \in DOMAIN weatherCache'
                /\ weatherCache'[k] = weatherCache[k]]_vars

====
